---- MODULE Spec2Model ----
(***************************************************************************)
(* Model of the product-scraping endpoint of FamilyChristmasList.          *)
(*                                                                         *)
(* The repository holds two variants of the POST /api/scrape-product       *)
(* handler:                                                                *)
(*   "jsdom"      src/app/api/scrape-product/route.ts (direct fetch, DOM)  *)
(*   "scraperapi" src/unnamed/part_003 (rendering service, regex scan)     *)
(* One request is served by one of them.                                   *)
(*                                                                         *)
(* Text is a sequence of one-character strings where the characters        *)
(* matter (price texts); URLs are sequences of tokens ("https:", "//",     *)
(* "site.com", "/", "a.jpg", ...), "" being the empty sequence.            *)
(* A JavaScript number is an integer count of 10^-FracDigits units, or NaN.*)
(***************************************************************************)
EXTENDS Integers, Sequences, FiniteSets, Bags, TLC

(* ---------------------------------------------------------------------- *)
(* Bounds                                                                  *)
(* ---------------------------------------------------------------------- *)

\* fractional digits a modelled number keeps (inputs carry at most this many)
FracDigits == 3

\* fractional digits of Number(num.toFixed(2))
Decimals == 2

\* An absent text (JavaScript null / undefined): the one-element sequence
\* holding a token that is no character; <<>> is the empty string.
Null == <<"null">>

\* A number-or-nothing value is <<n>> or <<>>: NaN is what parseFloat gives
\* when it finds no number, NoPrice the null price.
NaN == <<>>
NoPrice == <<>>
Num(n) == <<n>>

(* ---------------------------------------------------------------------- *)
(* Numbers and text                                                        *)
(* ---------------------------------------------------------------------- *)

RECURSIVE Pow10(_)
Pow10(n) == IF n <= 0 THEN 1 ELSE 10 * Pow10(n - 1)

\* one modelled unit is 10^-FracDigits; Unit is the number 1
Unit == Pow10(FracDigits)

\* one cent (10^-Decimals) in modelled units
Cent == Pow10(FracDigits - Decimals)

Digits == {"0", "1", "2", "3", "4", "5", "6", "7", "8", "9"}

DigitVal(c) ==
  CASE c = "0" -> 0 [] c = "1" -> 1 [] c = "2" -> 2 [] c = "3" -> 3
    [] c = "4" -> 4 [] c = "5" -> 5 [] c = "6" -> 6 [] c = "7" -> 7
    [] c = "8" -> 8 [] c = "9" -> 9

\* s.replace(/[^...]/g, ''): keep only the characters of keep
RECURSIVE Strip(_, _)
Strip(s, keep) ==
  IF s = <<>> THEN <<>>
  ELSE IF Head(s) \in keep THEN <<Head(s)>> \o Strip(Tail(s), keep)
  ELSE Strip(Tail(s), keep)

\* s.replace(a, b) with a string pattern: only the FIRST occurrence
RECURSIVE ReplaceFirst(_, _, _)
ReplaceFirst(s, a, b) ==
  IF s = <<>> THEN <<>>
  ELSE IF Head(s) = a THEN <<b>> \o Tail(s)
  ELSE <<Head(s)>> \o ReplaceFirst(Tail(s), a, b)

\* the longest prefix of s made of digits
RECURSIVE DigitPrefix(_)
DigitPrefix(s) ==
  IF s = <<>> \/ Head(s) \notin Digits THEN <<>>
  ELSE <<Head(s)>> \o DigitPrefix(Tail(s))

RECURSIVE Drop(_, _)
Drop(s, n) == IF n = 0 \/ s = <<>> THEN s ELSE Drop(Tail(s), n - 1)

RECURSIVE IntOf(_, _)
IntOf(ds, acc) ==
  IF ds = <<>> THEN acc ELSE IntOf(Tail(ds), 10 * acc + DigitVal(Head(ds)))

\* the fraction digits ds as a count of units: the first FracDigits digits
RECURSIVE FracOf(_, _)
FracOf(ds, k) ==
  IF k = 0 THEN 0
  ELSE IF ds = <<>> THEN 0
  ELSE DigitVal(Head(ds)) * Pow10(k - 1) + FracOf(Tail(ds), k - 1)

\* parseFloat on a text of digits, '.' and ',': the longest numeric prefix
\* digits [ '.' digits ]; NaN when that prefix holds no digit
ParseFloat(s) ==
  LET ip == DigitPrefix(s)
      rest == Drop(s, Len(ip))
      fp == IF rest # <<>> /\ Head(rest) = "." THEN DigitPrefix(Tail(rest))
            ELSE <<>>
  IN IF ip = <<>> /\ fp = <<>> THEN NaN
     ELSE Num(IntOf(ip, 0) * Unit + FracOf(fp, FracDigits))

\* Number(num.toFixed(2)): round to the nearest cent
ToFixed2(num) == ((num + (Cent \div 2)) \div Cent) * Cent

(* ---------------------------------------------------------------------- *)
(* Price normalizers                                                       *)
(* ---------------------------------------------------------------------- *)

\* route.ts parsePrice
parsePrice(text) ==
  IF text = Null \/ text = <<>> THEN NoPrice
  ELSE LET cleaned == ReplaceFirst(Strip(text, Digits \cup {".", ","}), ",", ".")
           num == ParseFloat(cleaned)
       IN IF num = NaN THEN NoPrice
          ELSE IF num[1] <= 0 THEN NoPrice
          ELSE Num(ToFixed2(num[1]))

\* part_003 cleanPrice
cleanPrice(input) ==
  IF input = Null \/ input = <<>> THEN NoPrice
  ELSE LET cleaned == Strip(input, Digits \cup {"."})
           num == ParseFloat(cleaned)
       IN IF num = NaN THEN NoPrice ELSE num

(* ---------------------------------------------------------------------- *)
(* URLs                                                                    *)
(* ---------------------------------------------------------------------- *)

\* scheme tokens; the special ones need "//" and a host to parse
Schemes == {"http:", "https:", "ftp:", "data:"}
SpecialSchemes == {"http:", "https:", "ftp:"}

StartsWith(s, pre) ==
  /\ Len(s) >= Len(pre)
  /\ \A i \in 1..Len(pre) : s[i] = pre[i]

\* raw.startsWith('/'): the token "//" begins with '/' as well
StartsWithSlash(s) == s # <<>> /\ s[1] \in {"/", "//"}

\* new URL(u) succeeds
IsUrl(u) ==
  /\ u # <<>>
  /\ u[1] \in Schemes
  /\ u[1] \in SpecialSchemes =>
       /\ Len(u) >= 3
       /\ u[2] = "//"
       /\ u[3] \notin {"/", "//"}

\* new URL(u).protocol and .origin, for a u that parses (http, https)
Protocol(u) == u[1]
Origin(u) == <<u[1], u[2], u[3]>>

\* the path of u up to and including its last "/"
RECURSIVE DirOf(_)
DirOf(path) ==
  IF path = <<>> THEN <<"/">>
  ELSE IF path[Len(path)] = "/" THEN path
  ELSE DirOf(SubSeq(path, 1, Len(path) - 1))

\* new URL(raw, base).toString() for a base that parses: <<TRUE, url>>, or
\* <<FALSE, <<>>>> when the constructor throws
ResolveRelative(raw, base) ==
  IF raw[1] \in Schemes
  THEN IF IsUrl(raw) THEN <<TRUE, raw>> ELSE <<FALSE, <<>>>>
  ELSE <<TRUE, Origin(base) \o DirOf(SubSeq(base, 4, Len(base))) \o raw>>

\* route.ts toAbsoluteUrl
toAbsoluteUrl(raw, baseUrl) ==
  IF raw = <<>> THEN <<>>
  ELSE IF ~IsUrl(baseUrl) THEN
         \* every branch but 'already absolute' parses the base and throws
         raw
  ELSE IF StartsWith(raw, <<"//">>) THEN <<Protocol(baseUrl)>> \o raw
  ELSE IF StartsWithSlash(raw) THEN Origin(baseUrl) \o raw
  ELSE IF StartsWith(raw, <<"http:", "//">>) \/ StartsWith(raw, <<"https:", "//">>)
       THEN raw
  ELSE LET r == ResolveRelative(raw, baseUrl)
       IN IF r[1] THEN r[2] ELSE raw

\* u.includes(needle) / u.toLowerCase().includes(needle) on tokens: the
\* tokens that contain each needle
PixelTokens == {"pixel.gif", "Pixel.png", "tracking-pixel"}
BatchTokens == {"1/batch/"}
FlsTokens == {"fls-na.amazon.com"}
MediaAmazonTokens == {"m.media-amazon.com"}

Includes(u, toks) == \E i \in 1..Len(u) : u[i] \in toks

\* the tracking-pixel filter of pickAmazonImage and pickGenericImage
IsTracking(u) ==
  \/ Includes(u, FlsTokens)
  \/ Includes(u, BatchTokens)
  \/ Includes(u, PixelTokens)

\* candidates.map(toAbsoluteUrl).filter(non-empty).filter(not tracking)
AbsoluteCandidates(candidates, finalUrl) ==
  LET mapped == [i \in 1..Len(candidates) |-> toAbsoluteUrl(candidates[i], finalUrl)]
      Keep(u) == u # <<>> /\ ~IsTracking(u)
  IN SelectSeq(mapped, Keep)

\* a || b on texts: the first one that is neither null nor empty
Truthy(t) == t # Null /\ t # <<>>
Or(a, b) == IF Truthy(a) THEN a ELSE b

\* the attribute-bearing candidates of one Amazon image element
\* (route.ts lines 45-53 and 55-65); el.present is FALSE when querySelector
\* finds no such element
AmazonElementCandidates(el) ==
  IF ~el.present THEN <<>>
  ELSE LET hires == Or(el.oldHires, el.dynamicImage)
       IN (IF Truthy(hires) /\ ~StartsWith(hires, <<"{">>) THEN <<hires>> ELSE <<>>)
          \o (IF Truthy(el.src) THEN <<el.src>> ELSE <<>>)

\* pickAmazonImage without the preference for m.media-amazon.com: the
\* first surviving candidate
pickAmazonImageFirst(doc, finalUrl) ==
  LET og == Or(doc.ogImage, doc.twitterImage)
      candidates == AmazonElementCandidates(doc.landingImage)
                    \o AmazonElementCandidates(doc.wrapperImg)
                    \o (IF Truthy(og) THEN <<og>> ELSE <<>>)
      absolute == AbsoluteCandidates(candidates, finalUrl)
  IN IF absolute = <<>> THEN Null ELSE absolute[1]

\* route.ts pickAmazonImage; Null when no candidate survives
pickAmazonImage(doc, finalUrl) ==
  LET og == Or(doc.ogImage, doc.twitterImage)
      candidates == AmazonElementCandidates(doc.landingImage)
                    \o AmazonElementCandidates(doc.wrapperImg)
                    \o (IF Truthy(og) THEN <<og>> ELSE <<>>)
      absolute == AbsoluteCandidates(candidates, finalUrl)
      IsMedia(u) == Includes(u, MediaAmazonTokens)
      preferred == SelectSeq(absolute, IsMedia)
  IN IF absolute = <<>> THEN Null
     ELSE IF preferred # <<>> THEN preferred[1] ELSE absolute[1]

\* doc.querySelectorAll('img'): the two Amazon image elements are <img>
\* elements too and come first in the pages modelled
AllImgs(doc) ==
  LET AsImg(el) == IF el.present
                   THEN <<[src |-> el.src, dataSrc |-> Null, dataSrcset |-> Null,
                           width |-> <<>>, height |-> <<>>]>>
                   ELSE <<>>
  IN AsImg(doc.landingImage) \o AsImg(doc.wrapperImg) \o doc.imgs

\* img.getAttribute('src') || 'data-src' || 'data-srcset' of every <img>
RECURSIVE ImgCandidates(_)
ImgCandidates(imgs) ==
  IF imgs = <<>> THEN <<>>
  ELSE LET src == Or(Or(Head(imgs).src, Head(imgs).dataSrc), Head(imgs).dataSrcset)
       IN (IF Truthy(src) THEN <<src>> ELSE <<>>) \o ImgCandidates(Tail(imgs))

\* route.ts pickGenericImage
pickGenericImage(doc, finalUrl) ==
  LET ogImage == Or(doc.ogImage, doc.twitterImage)
      candidates == (IF Truthy(ogImage) THEN <<ogImage>> ELSE <<>>)
                    \o (IF Truthy(doc.linkImage) THEN <<doc.linkImage>> ELSE <<>>)
                    \o ImgCandidates(AllImgs(doc))
      absolute == AbsoluteCandidates(candidates, finalUrl)
  IN IF absolute = <<>> THEN Null ELSE absolute[1]

\* new URL(finalUrl).hostname, '' when it does not parse (route.ts 210-216)
HostOf(finalUrl) == IF IsUrl(finalUrl) /\ Len(finalUrl) >= 3 THEN finalUrl[3] ELSE ""

\* host.includes('amazon.') || host === 'a.co'
AmazonHosts == {"www.amazon.com", "smile.amazon.co.uk", "a.co"}
IsAmazonHost(host) == host \in AmazonHosts

\* JsdomImage without the generic fallback on an Amazon host
JsdomImageNoFallback(doc, finalUrl) ==
  IF IsAmazonHost(HostOf(finalUrl))
  THEN pickAmazonImage(doc, finalUrl)
  ELSE pickGenericImage(doc, finalUrl)

\* route.ts lines 243-252
JsdomImage(doc, finalUrl) ==
  IF IsAmazonHost(HostOf(finalUrl))
  THEN LET a == pickAmazonImage(doc, finalUrl)
       IN IF Truthy(a) THEN a ELSE pickGenericImage(doc, finalUrl)
  ELSE pickGenericImage(doc, finalUrl)

(* ---------------------------------------------------------------------- *)
(* Title and description                                                   *)
(* ---------------------------------------------------------------------- *)

Whitespace == {" ", "\n", "\t"}

\* input.replace(/\s+/g, ' '): every run of whitespace becomes one space
RECURSIVE CollapseWs(_)
CollapseWs(s) ==
  IF s = <<>> THEN <<>>
  ELSE IF Head(s) \in Whitespace
       THEN IF Tail(s) # <<>> /\ Head(Tail(s)) \in Whitespace
            THEN CollapseWs(Tail(s))
            ELSE <<" ">> \o CollapseWs(Tail(s))
  ELSE <<Head(s)>> \o CollapseWs(Tail(s))

\* String.prototype.trim on a text whose whitespace runs are collapsed
Trim(s) ==
  LET a == IF s # <<>> /\ Head(s) \in Whitespace THEN Tail(s) ELSE s
  IN IF a # <<>> /\ a[Len(a)] \in Whitespace THEN SubSeq(a, 1, Len(a) - 1) ELSE a

NormalizeWs(s) == Trim(CollapseWs(s))

\* route.ts cleanText
cleanText(input) == IF ~Truthy(input) THEN <<>> ELSE NormalizeWs(input)

\* value || null in the response
OrNull(t) == IF Truthy(t) THEN t ELSE Null

\* route.ts lines 218-224
JsdomTitle(doc) ==
  cleanText(Or(Or(Or(doc.ogTitle, doc.twitterTitle), doc.titleTag), <<>>))

\* route.ts lines 226-238
JsdomDescription(doc) ==
  cleanText(Or(Or(Or(doc.ogDescription, doc.metaDescription),
                  doc.twitterDescription), <<>>))

\* the capture ([^"']+) of part_003's meta regexes: the content up to its
\* first quote character; Null when the regex does not match (attribute
\* absent, or nothing before the first quote)
RECURSIVE UntilQuote(_)
UntilQuote(s) ==
  IF s = <<>> \/ Head(s) \in {"'", "\""} THEN <<>>
  ELSE <<Head(s)>> \o UntilQuote(Tail(s))

MetaCapture(content) ==
  IF content = Null \/ UntilQuote(content) = <<>> THEN Null
  ELSE UntilQuote(content)

\* the capture ([^<]+) of /<title>([^<]+)<\/title>/
TitleTagCapture(text) == IF Truthy(text) THEN text ELSE Null

\* part_003 lines 47-56
ScraperTitle(doc) ==
  LET title == Or(Or(MetaCapture(doc.ogTitle), MetaCapture(doc.nameTitle)),
                  TitleTagCapture(doc.titleTag))
  IN IF Truthy(title) THEN NormalizeWs(title) ELSE Null

\* part_003 lines 58-66
ScraperDescription(doc) ==
  LET description == Or(MetaCapture(doc.metaDescription),
                        MetaCapture(doc.ogDescription))
  IN IF Truthy(description) THEN NormalizeWs(description) ELSE Null

\* part_003: the first <img ... src=...> tag with a non-empty quoted value
\* after "src=": the greedy [^>]+ makes the LAST attribute ending in src= of
\* that tag the captured one (data-src is written after src in the pages)
RECURSIVE FirstImgSrc(_)
FirstImgSrc(imgs) ==
  IF imgs = <<>> THEN Null
  ELSE LET i == Head(imgs)
       IN IF Truthy(i.dataSrc) THEN i.dataSrc
          ELSE IF Truthy(i.src) THEN i.src
          ELSE FirstImgSrc(Tail(imgs))

\* part_003 lines 68-86
ScraperImage(doc) ==
  LET og == Or(MetaCapture(doc.ogImage), MetaCapture(doc.ogImageUrl))
      img == IF Truthy(og) THEN og ELSE FirstImgSrc(AllImgs(doc))
  IN IF Truthy(img) /\ StartsWith(img, <<"//">>) THEN <<"https:">> \o img
     ELSE img

(* ---------------------------------------------------------------------- *)
(* Price                                                                   *)
(* ---------------------------------------------------------------------- *)

\* text || null
OrNullText(t) == IF Truthy(t) THEN t ELSE Null

HasDollar(t) == \E i \in 1..Len(t) : t[i] = "$"

\* every span.a-offscreen of the document in document order: the two
\* core-price spans are themselves a-offscreen spans
OffscreenSpans(doc) ==
  (IF doc.corePriceDisplay # Null THEN <<doc.corePriceDisplay>> ELSE <<>>)
  \o (IF doc.corePriceFeature # Null THEN <<doc.corePriceFeature>> ELSE <<>>)
  \o doc.otherOffscreen

\* the candidate texts of findPrice in the order they are pushed
\* (route.ts lines 127-166)
PriceTexts(doc) ==
  LET Dollar(t) == Truthy(t) /\ HasDollar(t)
  IN << OrNullText(doc.metaItempropPrice),
        OrNullText(doc.metaProductPrice),
        OrNullText(doc.priceblockOurprice),
        OrNullText(doc.priceblockDealprice),
        OrNullText(doc.corePriceDisplay),
        OrNullText(doc.corePriceFeature) >>
     \o SelectSeq(OffscreenSpans(doc), Dollar)
     \o << OrNullText(doc.priceViewCustomer),
           OrNullText(doc.priceClass) >>

\* the loop of route.ts lines 168-172
RECURSIVE FirstParsed(_)
FirstParsed(texts) ==
  IF texts = <<>> THEN NoPrice
  ELSE LET p == parsePrice(Head(texts))
       IN IF p # NoPrice THEN p ELSE FirstParsed(Tail(texts))

\* route.ts findPrice
findPrice(doc) == FirstParsed(PriceTexts(doc))

\* A JSON value of a JSON-LD entry: absent, a string or a number
JAbsent == [t |-> "absent", s |-> <<>>, n |-> 0]
JStr(text) == [t |-> "string", s |-> text, n |-> 0]
JNum(units) == [t |-> "number", s |-> <<>>, n |-> units]

JTruthy(j) ==
  \/ j.t = "string" /\ j.s # <<>>
  \/ j.t = "number" /\ j.n # 0

\* cleanPrice applied to a truthy JSON value: <<"ok", price>>, or
\* <<"throw", NoPrice>> because a number has no replace method
CleanJson(j) ==
  IF j.t = "string" THEN <<"ok", cleanPrice(j.s)>> ELSE <<"throw", NoPrice>>

\* part_003 tryExtractPrice (lines 104-110); obj.isNull is a JSON null entry
tryExtractPrice(obj) ==
  IF obj.isNull THEN <<"ok", NoPrice>>
  ELSE IF JTruthy(obj.offersPrice) THEN CleanJson(obj.offersPrice)
  ELSE IF JTruthy(obj.offersHighPrice) THEN CleanJson(obj.offersHighPrice)
  ELSE IF JTruthy(obj.price) THEN CleanJson(obj.price)
  ELSE <<"ok", NoPrice>>

\* the loop over the entries of an array block (lines 113-119)
RECURSIVE FirstEntryPrice(_)
FirstEntryPrice(entries) ==
  IF entries = <<>> THEN <<"ok", NoPrice>>
  ELSE LET r == tryExtractPrice(Head(entries))
       IN IF r[1] = "throw" THEN r
          ELSE IF r[2] # NoPrice THEN r
          ELSE FirstEntryPrice(Tail(entries))

\* one JSON-LD block (lines 98-130): the price it yields, NoPrice when
\* JSON.parse or the extraction throws (the catch ignores both)
BlockPrice(block) ==
  IF ~block.parses THEN NoPrice
  ELSE LET r == IF block.isArray THEN FirstEntryPrice(block.entries)
                ELSE tryExtractPrice(block.entries[1])
       IN IF r[1] = "throw" THEN NoPrice ELSE r[2]

\* the loop over the blocks (lines 96-132)
RECURSIVE JsonLdPrice(_)
JsonLdPrice(blocks) ==
  IF blocks = <<>> THEN NoPrice
  ELSE LET p == BlockPrice(Head(blocks))
       IN IF p # NoPrice THEN p ELSE JsonLdPrice(Tail(blocks))

\* the raw HTML as far as the '$' regex is concerned: the texts that may
\* hold a '$', in document order, each closed by a tag
RECURSIVE Flatten(_)
Flatten(texts) ==
  IF texts = <<>> THEN <<>>
  ELSE (IF Head(texts) = Null THEN <<>> ELSE Head(texts) \o <<"<">>)
       \o Flatten(Tail(texts))

RawHtml(doc) ==
  Flatten(<< doc.metaItempropPrice, doc.metaProductPrice,
             doc.priceblockOurprice, doc.priceblockDealprice >>
          \o OffscreenSpans(doc)
          \o << doc.priceViewCustomer, doc.priceClass, doc.bodyText >>)

\* up to n leading digits of s
RECURSIVE DigitsUpTo(_, _)
DigitsUpTo(s, n) ==
  IF n = 0 \/ s = <<>> \/ Head(s) \notin Digits THEN <<>>
  ELSE <<Head(s)>> \o DigitsUpTo(Tail(s), n - 1)

\* (?:,[0-9]{3})* at the head of s
RECURSIVE ThousandsGroups(_)
ThousandsGroups(s) ==
  IF Len(s) >= 4 /\ s[1] = "," /\ s[2] \in Digits /\ s[3] \in Digits /\ s[4] \in Digits
  THEN SubSeq(s, 1, 4) \o ThousandsGroups(Drop(s, 4))
  ELSE <<>>

\* (?:\.[0-9]{2})? at the head of s
CentsGroup(s) ==
  IF Len(s) >= 3 /\ s[1] = "." /\ s[2] \in Digits /\ s[3] \in Digits
  THEN SubSeq(s, 1, 3) ELSE <<>>

\* html.match(/\$[0-9]{1,4}(?:,[0-9]{3})*(?:\.[0-9]{2})?/): the first match,
\* Null when there is none (part_003 line 136)
RECURSIVE DollarMatch(_)
DollarMatch(s) ==
  IF s = <<>> THEN Null
  ELSE IF Head(s) = "$" /\ DigitsUpTo(Tail(s), 4) # <<>>
       THEN LET d == DigitsUpTo(Tail(s), 4)
                r1 == Drop(Tail(s), Len(d))
                g == ThousandsGroups(r1)
                r2 == Drop(r1, Len(g))
            IN <<"$">> \o d \o g \o CentsGroup(r2)
  ELSE DollarMatch(Tail(s))

\* part_003 lines 88-140
ScraperPrice(doc) ==
  LET price == JsonLdPrice(doc.jsonLd)
  IN IF price # NoPrice THEN price
     ELSE LET priceMatch == DollarMatch(RawHtml(doc))
          IN IF priceMatch # Null THEN cleanPrice(priceMatch) ELSE NoPrice


(* ---------------------------------------------------------------------- *)
(* Pages the upstream may serve                                            *)
(* ---------------------------------------------------------------------- *)

NoElement == [present |-> FALSE, oldHires |-> Null, dynamicImage |-> Null, src |-> Null]
Element(hires, dyn, src) ==
  [present |-> TRUE, oldHires |-> hires, dynamicImage |-> dyn, src |-> src]
\* an <img>; width and height are <<n>> when declared and <<>> when not
Img(src, dataSrc) ==
  [src |-> src, dataSrc |-> dataSrc, dataSrcset |-> Null,
   width |-> <<>>, height |-> <<>>]
SizedImg(src, w, h) ==
  [src |-> src, dataSrc |-> Null, dataSrcset |-> Null,
   width |-> <<w>>, height |-> <<h>>]

\* a JSON-LD entry and block
Entry(op, ohp, pr) ==
  [isNull |-> FALSE, offersPrice |-> op, offersHighPrice |-> ohp, price |-> pr]
ObjectBlock(e) == [parses |-> TRUE, isArray |-> FALSE, entries |-> <<e>>]
ArrayBlock(es) == [parses |-> TRUE, isArray |-> TRUE, entries |-> es]
BadBlock == [parses |-> FALSE, isArray |-> FALSE, entries |-> <<>>]

\* the document with nothing to extract
EmptyPage ==
  [ short |-> FALSE,
    ogTitle |-> Null, twitterTitle |-> Null, nameTitle |-> Null, titleTag |-> Null,
    metaDescription |-> Null, ogDescription |-> Null, twitterDescription |-> Null,
    ogImage |-> Null, ogImageUrl |-> Null, twitterImage |-> Null,
    linkImage |-> Null, imgs |-> <<>>,
    landingImage |-> NoElement, wrapperImg |-> NoElement,
    metaItempropPrice |-> Null, metaProductPrice |-> Null,
    priceblockOurprice |-> Null, priceblockDealprice |-> Null,
    corePriceDisplay |-> Null, corePriceFeature |-> Null,
    otherOffscreen |-> <<>>, priceViewCustomer |-> Null, priceClass |-> Null,
    jsonLd |-> <<>>, bodyText |-> <<>> ]

TitleFields == {"ogTitle", "twitterTitle", "nameTitle", "titleTag"}
DescriptionFields == {"metaDescription", "ogDescription", "twitterDescription"}
ImageFields == {"ogImage", "ogImageUrl", "twitterImage", "linkImage", "imgs",
                "landingImage", "wrapperImg"}
PriceFields == {"metaItempropPrice", "metaProductPrice", "priceblockOurprice",
                "priceblockDealprice", "corePriceDisplay", "corePriceFeature",
                "otherOffscreen", "priceViewCustomer", "priceClass", "jsonLd",
                "bodyText"}

\* page p with the fields of profile prof set
With(p, prof) == [f \in DOMAIN p |-> IF f \in DOMAIN prof THEN prof[f] ELSE p[f]]

\* page p with every field outside keep as in the empty page
Only(p, keep) == [f \in DOMAIN p |-> IF f \in keep \cup {"short"} THEN p[f] ELSE EmptyPage[f]]

TitleProfiles ==
  { [ogTitle |-> Null],
    [ogTitle |-> <<"Widget">>],
    [ogTitle |-> <<>>, titleTag |-> <<" ", "Big", " ", "\n", "Widget", " ">>],
    [ogTitle |-> <<" ">>, nameTitle |-> <<"Bob", "'", "s">>],
    [ogTitle |-> <<" ">>, titleTag |-> <<"Widget">>],
    [twitterTitle |-> <<"Tweeted">>, titleTag |-> <<"Widget">>],
    [nameTitle |-> <<"Named">>, titleTag |-> <<"Widget">>] }

DescriptionProfiles ==
  { [metaDescription |-> Null],
    [metaDescription |-> <<"plain">>, ogDescription |-> <<"social">>],
    [twitterDescription |-> <<"tweet">>] }

ImgAbs == <<"https:", "//", "x.com", "/", "w.jpg">>
ImgMedia == <<"https:", "//", "m.media-amazon.com", "/", "x.jpg">>
ImgRooted == <<"/", "img", "/", "a.jpg">>
ImgProtoRel == <<"//", "img.example.com", "/", "a.jpg">>
ImgRelative == <<"a.jpg">>
ImgData == <<"data:", "image/png;base64,AAAA">>
ImgPixel == <<"https:", "//", "x.com", "/", "pixel.gif">>
ImgBadFtp == <<"ftp:", "//">>
ImgIcon == <<"https:", "//", "x.com", "/", "icon.png">>
ImgDynamic == <<"{", "https:", "//", "m.media-amazon.com", "/", "x.jpg", "}">>

ImageProfiles ==
  { [ogImage |-> Null],
    [ogImage |-> ImgAbs],
    [ogImage |-> ImgRooted],
    [ogImage |-> ImgProtoRel],
    [imgs |-> <<Img(ImgRelative, Null)>>],
    [imgs |-> <<Img(ImgData, Null), Img(ImgAbs, Null)>>],
    [imgs |-> <<Img(ImgAbs, ImgRooted)>>],
    [ogImage |-> ImgPixel, linkImage |-> ImgBadFtp],
    [landingImage |-> Element(Null, ImgDynamic, ImgRooted), ogImage |-> ImgAbs],
    [landingImage |-> Element(Null, ImgDynamic, Null)],
    [imgs |-> <<SizedImg(ImgIcon, 50, 50), SizedImg(ImgAbs, 500, 500)>>],
    [ogImage |-> ImgPixel, imgs |-> <<Img(ImgAbs, Null)>>],
    [ogImage |-> ImgBadFtp],
    [ogImage |-> ImgPixel],
    [wrapperImg |-> Element(ImgAbs, Null, ImgMedia), twitterImage |-> ImgPixel],
    [linkImage |-> ImgAbs],
    [landingImage |-> Element(ImgIcon, Null, Null), ogImage |-> ImgAbs],
    [landingImage |-> Element(Null, Null, ImgAbs),
     wrapperImg |-> Element(Null, Null, ImgMedia), ogImage |-> ImgIcon] }

T_1299_99 == <<"$", "1", ",", "2", "9", "9", ".", "9", "9">>
T_29c99 == <<"2", "9", ",", "9", "9">>
T_1299c99 == <<"1", "2", "9", "9", ",", "9", "9">>
T_19_99 == <<"1", "9", ".", "9", "9">>
T_19_999 == <<"1", "9", ".", "9", "9", "9">>
T_0_004 == <<"0", ".", "0", "0", "4">>
T_neg5 == <<"-", "5">>
T_zero == <<"0">>
T_NA == <<"N", "/", "A">>
T_d19_99 == <<"$", "1", "9", ".", "9", "9">>
T_d4_99 == <<"$", "4", ".", "9", "9">>
T_d249_99 == <<"$", "2", "4", "9", ".", "9", "9">>
T_29_99 == <<"2", "9", ".", "9", "9">>
T_body0 == <<"f", "r", "o", "m", " ", "$", "0", " ", "a", " ", "m", "o", "n", "t", "h">>
T_body12345 == <<"n", "o", "w", " ", "$", "1", "2", "3", "4", "5", ".", "9", "9", " ", "o", "r", " ", "$", "5", ",", "0", "0", "0">>

PriceTextSamples ==
  { T_1299_99, T_29c99, T_1299c99, T_19_99, T_19_999, T_0_004, T_neg5,
    T_zero, T_NA, T_d19_99, <<>> }

PriceProfiles ==
  { [priceClass |-> Null] }
  \cup { [metaItempropPrice |-> t] : t \in PriceTextSamples }
  \cup { [priceClass |-> t] : t \in PriceTextSamples }
  \cup { [jsonLd |-> <<ObjectBlock(Entry(JStr(t), JAbsent, JAbsent))>>] :
            t \in PriceTextSamples }
  \cup { [metaProductPrice |-> T_NA, otherOffscreen |-> <<T_19_99, T_d19_99>>],
         [corePriceDisplay |-> T_d19_99, priceblockOurprice |-> T_zero],
         [jsonLd |-> <<BadBlock, ObjectBlock(Entry(JAbsent, JStr(T_19_99), JAbsent))>>],
         [jsonLd |-> <<ObjectBlock(Entry(JNum(19990), JAbsent, JAbsent))>>,
          bodyText |-> T_body12345],
         [jsonLd |-> <<ArrayBlock(<<Entry(JAbsent, JAbsent, JAbsent),
                                    Entry(JAbsent, JAbsent, JStr(T_29c99))>>)>>],
         [jsonLd |-> <<ObjectBlock(Entry(JStr(T_NA), JStr(T_19_99), JAbsent))>>],
         [metaProductPrice |-> T_19_99,
          jsonLd |-> <<ObjectBlock(Entry(JStr(T_29_99), JAbsent, JAbsent))>>],
         [priceViewCustomer |-> T_d4_99, priceClass |-> T_d249_99],
         [jsonLd |-> <<BadBlock,
                       ObjectBlock(Entry(JStr(T_19_99), JAbsent, JAbsent)),
                       ObjectBlock(Entry(JStr(T_29_99), JAbsent, JAbsent))>>],
         [jsonLd |-> <<BadBlock,
                       ObjectBlock(Entry(JNum(19990), JAbsent, JAbsent)),
                       ObjectBlock(Entry(JStr(T_29_99), JAbsent, JAbsent))>>],
         [bodyText |-> T_body0],
         [bodyText |-> T_body12345] }

\* the profiles that are crossed with each other: per group, one that
\* misses and one that hits in both handlers
CoreTitles == { [ogTitle |-> Null], [ogTitle |-> <<"Widget">>] }
CoreDescriptions ==
  { [metaDescription |-> Null],
    [metaDescription |-> <<"plain">>, ogDescription |-> <<"social">>] }
CoreImages == { [ogImage |-> Null], [ogImage |-> ImgRooted] }
CorePrices == { [priceClass |-> Null], [priceClass |-> T_d19_99] }

\* the pages the upstream may serve: every combination of the core
\* profiles, every profile of each group on its own, and a short body
Pages ==
  { With(With(With(With(EmptyPage, t), d), i), p) :
      t \in CoreTitles, d \in CoreDescriptions,
      i \in CoreImages, p \in CorePrices }
  \cup { With(EmptyPage, prof) :
           prof \in TitleProfiles \cup DescriptionProfiles
                    \cup ImageProfiles \cup PriceProfiles }
  \cup { [EmptyPage EXCEPT !.short = TRUE],
         [With(EmptyPage, [ogTitle |-> <<"Widget">>]) EXCEPT !.short = TRUE] }

(* ---------------------------------------------------------------------- *)
(* The request                                                             *)
(* ---------------------------------------------------------------------- *)

Variants == {"jsdom", "scraperapi"}

UrlSite == <<"https:", "//", "site.com", "/", "p">>
UrlShort == <<"http:", "//", "a.co", "/", "d", "/", "x1">>
UrlAmazon == <<"https:", "//", "www.amazon.com", "/", "dp", "/", "B01">>
UrlBestBuy == <<"https:", "//", "www.bestbuy.com", "/", "site", "/", "tv">>
UrlFtp == <<"ftp:", "//", "site.com", "/", "p">>
UrlGarbage == <<"not a url">>

\* a request body: JSON that does not parse ("badjson"), the JSON value
\* null ("jsonnull"), or an object whose url is missing, a number or a string
Body(kind, urlType, url) == [kind |-> kind, urlType |-> urlType, url |-> url]
Bodies ==
  { Body("badjson", "missing", <<>>),
    Body("jsonnull", "missing", <<>>),
    Body("object", "missing", <<>>),
    Body("object", "number", <<>>),
    Body("object", "string", <<>>) }
  \cup { Body("object", "string", u) :
           u \in {UrlSite, UrlShort, UrlBestBuy, UrlFtp, UrlGarbage} }

\* the URLs fetch() sends a request for: those that parse and are http or
\* https; for any other it rejects with a TypeError before any traffic
IsHttpUrl(u) == IsUrl(u) /\ u[1] \in {"http:", "https:"}

VARIABLES
  variant,          \* which handler serves the request
  SCRAPER_API_KEY,  \* TRUE when process.env.SCRAPER_API_KEY is set
  body,             \* the request body
  pc,               \* the handler's position
  fetchLog,         \* the fetch() calls made so far, in order
  inflight,         \* the outbound network calls awaiting their answer
  reply,            \* how the awaited fetch settled
  text,             \* how the awaited res.text() settled
  response          \* the response returned

\* several requests served at once by one server process
VARIABLES
  calls,            \* per POST invocation: its locals and its position
  console           \* the number of lines written to the shared console

\* the admin page (AdminPage) and the table it writes
VARIABLES
  userId,           \* the signed-in user of the open page, Null before auth
  checkingAuth,     \* TRUE until supabase.auth.getUser() has answered
  wishlist_items,   \* the rows of table wishlist_items, oldest first
  draft,            \* the form: url, title, description, imageUrl, price, priority
  items,            \* the rows the page lists
  loadingItems,
  saving,
  scraping,
  errorMsg,
  scrapeCall,       \* the handleScrape invocation under way
  saveCall,         \* the handleSave invocation under way
  loads             \* the loadItems selects awaiting their answer

\* the cart of the shop page (ShopPage) and the table behind it
VARIABLES
  cart_items,       \* the rows of table cart_items of the user
  nextId,           \* the id the table gives its next new row
  cartRows,         \* the rows the page shows
  loadingCart,
  cartCalls,        \* the cart handler invocations under way
  failed            \* TRUE once some request of the page has failed

\* the budget box of the shop page
VARIABLES
  budget

scrapeVars == <<variant, SCRAPER_API_KEY, body, pc, fetchLog, inflight, reply, text, response>>
concVars == <<calls, console>>
adminVars == <<wishlist_items, draft, items, loadingItems, saving, scraping,
               errorMsg, scrapeCall, saveCall, loads>>
cartVars == <<cart_items, nextId, cartRows, loadingCart, cartCalls, failed>>
budgetVars == <<budget>>

\* the state outside the single request
authVars == <<userId, checkingAuth>>
elsewhere == <<concVars, authVars, adminVars, cartVars, budgetVars>>

vars == <<scrapeVars, elsewhere>>

NoReply == [state |-> "none", ok |-> FALSE, url |-> <<>>]
NoText == [state |-> "none", page |-> EmptyPage]
NoResponse == [status |-> 0]

\* NextResponse.json({ error }, { status })
ErrorResponse(status, error) == [status |-> status, error |-> error]

\* Catch without the try/catch around the handler body: the exception
\* leaves POST and no response is built
CatchMissing(v) == NoResponse

\* the catch clause of the handler (route.ts 260-266, part_003 148-154)
Catch(v) ==
  IF v = "jsdom"
  THEN ErrorResponse(500, "Unexpected error while scraping product")
  ELSE ErrorResponse(500, "Could not fetch product details automatically.")

\* the response to a fetch that settled with a non-OK status
\* (route.ts 197-202, part_003 37-43)
NotOkResponse(v) ==
  IF v = "jsdom"
  THEN ErrorResponse(500, "Failed to fetch page")
  ELSE ErrorResponse(502, "Could not fetch product details automatically.")

\* the response to a missing or non-string url (route.ts 179-184, part_003 19-21)
MissingUrlResponse(v) ==
  IF v = "jsdom" THEN ErrorResponse(400, "Missing or invalid URL")
  ELSE ErrorResponse(400, "Missing url")

\* (res as any).url || url
FinalUrl(replyUrl, url) == IF replyUrl # <<>> THEN replyUrl ELSE url

\* SuccessResponse that treats a page without a title as a failure
SuccessResponseTitleRequired(v, doc, finalUrl) ==
  LET title == IF v = "jsdom" THEN JsdomTitle(doc) ELSE ScraperTitle(doc)
  IN IF ~Truthy(title)
     THEN ErrorResponse(500, "No product details found")
     ELSE [ status |-> 200,
            title |-> title,
            description |-> OrNull(IF v = "jsdom" THEN JsdomDescription(doc)
                                   ELSE ScraperDescription(doc)),
            imageUrl |-> OrNull(IF v = "jsdom" THEN JsdomImage(doc, finalUrl)
                                ELSE ScraperImage(doc)),
            price |-> IF v = "jsdom" THEN findPrice(doc) ELSE ScraperPrice(doc) ]

\* the success response (route.ts 204-259, part_003 45-147)
SuccessResponse(v, doc, finalUrl) ==
  IF v = "jsdom"
  THEN [ status |-> 200,
         title |-> OrNull(JsdomTitle(doc)),
         description |-> OrNull(JsdomDescription(doc)),
         imageUrl |-> OrNull(JsdomImage(doc, finalUrl)),
         price |-> findPrice(doc) ]
  ELSE [ status |-> 200,
         title |-> OrNull(ScraperTitle(doc)),
         description |-> OrNull(ScraperDescription(doc)),
         imageUrl |-> OrNull(ScraperImage(doc)),
         price |-> ScraperPrice(doc) ]

\* the server process before any concurrent invocation, and the pages
\* before they are opened
ConcIdle == calls = <<>> /\ console = 0
AdminIdle ==
  /\ wishlist_items = <<>>
  /\ draft = <<>>
  /\ items = <<>>
  /\ loadingItems = TRUE
  /\ saving = FALSE
  /\ scraping = FALSE
  /\ errorMsg = Null
  /\ scrapeCall = <<>>
  /\ saveCall = <<>>
  /\ loads = <<>>
CartIdle ==
  /\ cart_items = {}
  /\ nextId = 1
  /\ cartRows = {}
  /\ loadingCart = TRUE
  /\ cartCalls = <<>>
  /\ failed = FALSE
BudgetIdle == budget = <<"5", "0", "0">>
PagesIdle ==
  /\ userId = Null
  /\ checkingAuth = TRUE
  /\ AdminIdle
  /\ CartIdle
  /\ BudgetIdle

Init ==
  /\ variant \in Variants
  /\ SCRAPER_API_KEY \in BOOLEAN
  /\ body \in Bodies
  /\ pc = "start"
  /\ fetchLog = <<>>
  /\ inflight = {}
  /\ reply = NoReply
  /\ text = NoText
  /\ response = NoResponse
  /\ ConcIdle
  /\ PagesIdle

Respond(r) ==
  /\ response' = r
  /\ pc' = "done"

\* a fetch() call: sent is FALSE when fetch rejects without any network
\* traffic (the URL does not parse or is not http/https)
Call(tier, sent) == [tier |-> tier, sent |-> sent]

\* POST up to its first await of fetch (route.ts 176-195, part_003 16-36)
POST_begin ==
  /\ pc = "start"
  /\ UNCHANGED elsewhere
  /\ UNCHANGED <<variant, SCRAPER_API_KEY, body, reply, text>>
  /\ IF body.kind \in {"badjson", "jsonnull"}
     THEN \* req.json() rejects, or destructuring null throws
          /\ Respond(Catch(variant))
          /\ UNCHANGED <<fetchLog, inflight>>
     ELSE IF body.urlType # "string" \/ body.url = <<>>
     THEN /\ Respond(MissingUrlResponse(variant))
          /\ UNCHANGED <<fetchLog, inflight>>
     ELSE IF variant = "jsdom"
     THEN IF IsHttpUrl(body.url)
          THEN /\ fetchLog' = Append(fetchLog, Call("direct", TRUE))
               /\ inflight' = inflight \cup {"direct"}
               /\ pc' = "fetching"
               /\ UNCHANGED response
          ELSE \* fetch(url) rejects with a TypeError
               /\ fetchLog' = Append(fetchLog, Call("direct", FALSE))
               /\ Respond(Catch(variant))
               /\ UNCHANGED inflight
     ELSE IF ~SCRAPER_API_KEY
     THEN /\ Respond(ErrorResponse(500, "Server not configured for scraping"))
          /\ UNCHANGED <<fetchLog, inflight>>
     ELSE /\ fetchLog' = Append(fetchLog, Call("scraper", TRUE))
          /\ inflight' = inflight \cup {"scraper"}
          /\ pc' = "fetching"
          /\ UNCHANGED response

\* the URLs a direct fetch can end on after its redirects; the rendering
\* service answers under its own URL, which part_003 never reads
ReplyUrls ==
  IF variant = "jsdom" THEN {body.url, UrlAmazon, <<>>} ELSE {<<>>}

\* the upstream answers the fetch in flight with a status line
FetchResolves ==
  /\ pc = "fetching"
  /\ UNCHANGED elsewhere
  /\ \E ok \in BOOLEAN, u \in ReplyUrls :
       reply' = [state |-> "resolved", ok |-> ok, url |-> u]
  /\ inflight' = {}
  /\ pc' = "fetched"
  /\ UNCHANGED <<variant, SCRAPER_API_KEY, body, fetchLog, text, response>>

\* the fetch in flight fails (DNS, connection refused, reset)
FetchRejects ==
  /\ pc = "fetching"
  /\ UNCHANGED elsewhere
  /\ reply' = [state |-> "rejected", ok |-> FALSE, url |-> <<>>]
  /\ inflight' = {}
  /\ pc' = "fetched"
  /\ UNCHANGED <<variant, SCRAPER_API_KEY, body, fetchLog, text, response>>

\* POST from the settled fetch to its await of res.text()
\* (route.ts 197-204, part_003 37-45)
POST_afterFetch ==
  /\ pc = "fetched"
  /\ UNCHANGED elsewhere
  /\ UNCHANGED <<variant, SCRAPER_API_KEY, body, fetchLog, inflight, reply, text>>
  /\ IF reply.state = "rejected" THEN Respond(Catch(variant))
     ELSE IF ~reply.ok THEN Respond(NotOkResponse(variant))
     ELSE /\ pc' = "reading"
          /\ UNCHANGED response

\* the body arrives
TextResolves ==
  /\ pc = "reading"
  /\ UNCHANGED elsewhere
  /\ \E page \in Pages : text' = [state |-> "resolved", page |-> page]
  /\ pc' = "read"
  /\ UNCHANGED <<variant, SCRAPER_API_KEY, body, fetchLog, inflight, reply, response>>

\* the connection breaks while the body is read
TextRejects ==
  /\ pc = "reading"
  /\ UNCHANGED elsewhere
  /\ text' = [state |-> "rejected", page |-> EmptyPage]
  /\ pc' = "read"
  /\ UNCHANGED <<variant, SCRAPER_API_KEY, body, fetchLog, inflight, reply, response>>

\* POST from the settled res.text() to its return
\* (route.ts 204-259, part_003 45-147)
POST_extract ==
  /\ pc = "read"
  /\ UNCHANGED elsewhere
  /\ UNCHANGED <<variant, SCRAPER_API_KEY, body, fetchLog, inflight, reply, text>>
  /\ IF text.state = "rejected" THEN Respond(Catch(variant))
     ELSE Respond(SuccessResponse(variant, text.page, FinalUrl(reply.url, body.url)))

Next ==
  \/ POST_begin
  \/ FetchResolves
  \/ FetchRejects
  \/ POST_afterFetch
  \/ TextResolves
  \/ TextRejects
  \/ POST_extract

Spec == Init /\ [][Next]_vars

\* the handler's own steps always run when they can; nothing obliges the
\* upstream to answer
FairSpec ==
  /\ Spec
  /\ WF_vars(POST_begin)
  /\ WF_vars(POST_afterFetch)
  /\ WF_vars(POST_extract)


(* ---------------------------------------------------------------------- *)
(* Several requests at once                                                *)
(* ---------------------------------------------------------------------- *)

\* the single request and the pages while something else is modelled
ScrapeIdle ==
  /\ body = Body("object", "missing", <<>>)
  /\ pc = "idle"
  /\ fetchLog = <<>>
  /\ inflight = {}
  /\ reply = NoReply
  /\ text = NoText
  /\ response = NoResponse

\* the POST invocations the server process runs at the same time
NumRequests == 2
Requests == 1..NumRequests

ConcBodies ==
  { Body("object", "missing", <<>>),
    Body("object", "string", UrlSite),
    Body("object", "string", UrlGarbage) }
ConcPages ==
  { EmptyPage,
    With(EmptyPage, [ogTitle |-> <<"Widget">>]),
    With(EmptyPage, [priceClass |-> T_d19_99]) }

\* the locals of one invocation: url (in body), res, html, and the
\* response it returns
NewCall(b) ==
  [body |-> b, pc |-> "start", reply |-> NoReply, text |-> NoText,
   response |-> NoResponse]

\* html kept in one variable outside POST instead of a local: a request
\* reads the body that was stored first, its own or another request's
HtmlModuleLevel(r) ==
  calls[CHOOSE q \in Requests :
          /\ calls[q].text.state # "none"
          /\ \A o \in Requests : calls[o].text.state # "none" => q <= o].text

\* const html = await res.text() (route.ts 204, part_003 45): a local of
\* the invocation
Html(r) == calls[r].text

\* the responses built next to a console.error call (route.ts 261;
\* part_003 24, 38, 149)
Logged(v, resp) ==
  IF v = "jsdom" THEN resp = Catch(v)
  ELSE resp.status \in {500, 502}

ConcRespond(r, resp) ==
  /\ calls' = [calls EXCEPT ![r].response = resp, ![r].pc = "done"]
  /\ console' = console + (IF Logged(variant, resp) THEN 1 ELSE 0)

ConcInit ==
  /\ variant \in Variants
  /\ SCRAPER_API_KEY \in BOOLEAN
  /\ ScrapeIdle
  /\ calls \in [Requests -> {NewCall(b) : b \in ConcBodies}]
  /\ console = 0
  /\ PagesIdle

\* POST of invocation r up to its await of fetch
Conc_POST_begin(r) ==
  LET c == calls[r]
  IN /\ c.pc = "start"
     /\ UNCHANGED <<scrapeVars, authVars, adminVars, cartVars, budgetVars>>
     /\ IF c.body.kind \in {"badjson", "jsonnull"}
        THEN ConcRespond(r, Catch(variant))
        ELSE IF c.body.urlType # "string" \/ c.body.url = <<>>
        THEN ConcRespond(r, MissingUrlResponse(variant))
        ELSE IF variant = "jsdom" /\ ~IsHttpUrl(c.body.url)
        THEN ConcRespond(r, Catch(variant))
        ELSE IF variant = "scraperapi" /\ ~SCRAPER_API_KEY
        THEN ConcRespond(r, ErrorResponse(500, "Server not configured for scraping"))
        ELSE /\ calls' = [calls EXCEPT ![r].pc = "fetching"]
             /\ UNCHANGED console

\* the upstream answers the fetch of invocation r with a status line
Conc_FetchResolves(r) ==
  /\ calls[r].pc = "fetching"
  /\ \E ok \in BOOLEAN,
        u \in IF variant = "jsdom" THEN {UrlAmazon, <<>>} ELSE {<<>>} :
       calls' = [calls EXCEPT
                   ![r].reply = [state |-> "resolved", ok |-> ok, url |-> u],
                   ![r].pc = "fetched"]
  /\ UNCHANGED <<scrapeVars, console, authVars, adminVars, cartVars, budgetVars>>

\* the fetch of invocation r fails
Conc_FetchRejects(r) ==
  /\ calls[r].pc = "fetching"
  /\ calls' = [calls EXCEPT
                 ![r].reply = [state |-> "rejected", ok |-> FALSE, url |-> <<>>],
                 ![r].pc = "fetched"]
  /\ UNCHANGED <<scrapeVars, console, authVars, adminVars, cartVars, budgetVars>>

\* POST of invocation r from the settled fetch to its await of res.text()
Conc_POST_afterFetch(r) ==
  /\ calls[r].pc = "fetched"
  /\ UNCHANGED <<scrapeVars, authVars, adminVars, cartVars, budgetVars>>
  /\ IF calls[r].reply.state = "rejected" THEN ConcRespond(r, Catch(variant))
     ELSE IF ~calls[r].reply.ok THEN ConcRespond(r, NotOkResponse(variant))
     ELSE /\ calls' = [calls EXCEPT ![r].pc = "reading"]
          /\ UNCHANGED console

\* the body of invocation r arrives
Conc_TextResolves(r) ==
  /\ calls[r].pc = "reading"
  /\ \E page \in ConcPages :
       calls' = [calls EXCEPT ![r].text = [state |-> "resolved", page |-> page],
                              ![r].pc = "read"]
  /\ UNCHANGED <<scrapeVars, console, authVars, adminVars, cartVars, budgetVars>>

\* the connection of invocation r breaks while the body is read
Conc_TextRejects(r) ==
  /\ calls[r].pc = "reading"
  /\ calls' = [calls EXCEPT ![r].text = [state |-> "rejected", page |-> EmptyPage],
                            ![r].pc = "read"]
  /\ UNCHANGED <<scrapeVars, console, authVars, adminVars, cartVars, budgetVars>>

\* POST of invocation r from the settled res.text() to its return
Conc_POST_extract(r) ==
  /\ calls[r].pc = "read"
  /\ UNCHANGED <<scrapeVars, authVars, adminVars, cartVars, budgetVars>>
  /\ IF calls[r].text.state = "rejected" THEN ConcRespond(r, Catch(variant))
     ELSE ConcRespond(r, SuccessResponse(variant, Html(r).page,
                                         FinalUrl(calls[r].reply.url, calls[r].body.url)))

ConcNext ==
  \E r \in Requests :
    \/ Conc_POST_begin(r)
    \/ Conc_FetchResolves(r)
    \/ Conc_FetchRejects(r)
    \/ Conc_POST_afterFetch(r)
    \/ Conc_TextResolves(r)
    \/ Conc_TextRejects(r)
    \/ Conc_POST_extract(r)

ConcSpec == ConcInit /\ [][ConcNext]_vars


(* ---------------------------------------------------------------------- *)
(* The budget box of the shop page                                         *)
(* ---------------------------------------------------------------------- *)

\* the largest budget, in whole currency units, that is stepped up further
MaxBudget == 600

\* parseFloat on a text that may start with '-'
ParseFloatSigned(s) ==
  IF s # <<>> /\ Head(s) = "-"
  THEN LET m == ParseFloat(Tail(s))
       IN IF m = NaN THEN NaN ELSE Num(0 - m[1])
  ELSE ParseFloat(s)

\* Math.round: the nearest integer, halves towards +Infinity
MathRound(num) == (num + (Unit \div 2)) \div Unit

\* String(i) of an integer i
RECURSIVE NatString(_)
NatString(i) ==
  LET last == <<CHOOSE c \in Digits : DigitVal(c) = i % 10>>
  IN IF i < 10 THEN last ELSE NatString(i \div 10) \o last
IntString(i) == IF i < 0 THEN <<"-">> \o NatString(0 - i) ELSE NatString(i)

\* /^-?\d*\.?\d*$/.test(val)
BudgetPattern(val) ==
  LET unsigned == IF val # <<>> /\ Head(val) = "-" THEN Tail(val) ELSE val
      ip == DigitPrefix(unsigned)
      rest == Drop(unsigned, Len(ip))
      frac == IF rest # <<>> /\ Head(rest) = "." THEN Tail(rest) ELSE rest
  IN DigitPrefix(frac) = frac

\* what the user may type into the box
BudgetInputs ==
  { <<>>, <<"-">>, <<".">>, <<"7">>, <<"1", "8">>, <<"1", "2", ".", "5">>,
    <<"-", "1", "0", "0">>, <<"-", "2", "6">>, <<"-", ".", "5">>,
    <<"1", "e", "3">>, <<"a", "b", "c">>, <<"1", ".", "2", ".", "3">> }

BudgetFrame == UNCHANGED <<scrapeVars, concVars, authVars, adminVars, cartVars>>

BudgetInit ==
  /\ variant = "jsdom"
  /\ SCRAPER_API_KEY = TRUE
  /\ ScrapeIdle
  /\ ConcIdle
  /\ PagesIdle

\* ShopPage.handleBudgetInputChange (route.ts 1031-1036)
handleBudgetInputChange(val) ==
  /\ budget' = IF val = <<>> \/ BudgetPattern(val) THEN val ELSE budget
  /\ BudgetFrame

\* parseFloat(budget || '0') || 0
BudgetCurrent ==
  LET parsed == ParseFloatSigned(IF budget = <<>> THEN <<"0">> ELSE budget)
  IN IF parsed = NaN THEN 0 ELSE parsed[1]

\* ShopPage.stepBudget (route.ts 1038-1044)
stepBudget(direction) ==
  LET step == 25 * Unit
      next == IF direction = "up" THEN BudgetCurrent + step
              ELSE IF BudgetCurrent - step > 0 THEN BudgetCurrent - step ELSE 0
  IN /\ direction = "up" => BudgetCurrent <= MaxBudget * Unit
     /\ budget' = IntString(MathRound(next))
     /\ BudgetFrame

BudgetNext ==
  \/ \E val \in BudgetInputs : handleBudgetInputChange(val)
  \/ \E direction \in {"up", "down"} : stepBudget(direction)

BudgetSpec == BudgetInit /\ [][BudgetNext]_vars


(* ---------------------------------------------------------------------- *)
(* The admin page                                                          *)
(* ---------------------------------------------------------------------- *)

\* the rows table wishlist_items may hold before handleSave is kept back
MaxRows == 1

\* String(num) of a non-negative number: the integer part, then the
\* fraction digits up to the last that is not 0
RECURSIVE FracString(_, _)
FracString(frac, width) ==
  IF frac = 0 THEN <<>>
  ELSE LET top == Pow10(width - 1)
       IN NatString(frac \div top) \o FracString(frac % top, width - 1)
NumberString(num) ==
  LET frac == FracString(num % Unit, FracDigits)
  IN NatString(num \div Unit) \o (IF frac = <<>> THEN <<>> ELSE <<".">> \o frac)

EmptyDraft ==
  [url |-> <<>>, title |-> <<>>, description |-> <<>>, imageUrl |-> <<>>,
   price |-> <<>>, priority |-> 3]

\* const data = await res.json(): the body of a success response
DataOf(resp) ==
  [title |-> resp.title, description |-> resp.description,
   imageUrl |-> resp.imageUrl, price |-> resp.price]
NoData == [title |-> Null, description |-> Null, imageUrl |-> Null, price |-> NoPrice]

\* the pages behind the links the user scrapes
AdminPages ==
  { EmptyPage,
    With(With(With(With(EmptyPage, [ogTitle |-> <<"Widget">>]),
                   [metaDescription |-> <<"plain">>, ogDescription |-> <<"social">>]),
              [ogImage |-> ImgRooted]),
         [priceClass |-> T_d19_99]),
    With(EmptyPage, [jsonLd |-> <<ObjectBlock(Entry(JStr(T_zero), JAbsent, JAbsent))>>]) }

\* the success bodies /api/scrape-product can answer with
ScrapeData ==
  { DataOf(SuccessResponse(v, page, UrlSite)) : v \in Variants, page \in AdminPages }

IdleCall == [pc |-> "idle", outcome |-> "none", data |-> NoData]
NoRow ==
  [owner_id |-> Null, title |-> <<>>, description |-> Null, product_url |-> Null,
   image_url |-> Null, price_cents |-> NoPrice, priority |-> 3]
IdleSave == [pc |-> "idle", row |-> NoRow, error |-> FALSE]

\* what the user may type into the form: a field and its new value
Typings ==
  { <<"url", UrlSite>>, <<"title", <<"Mine">>>> }

AdminInit ==
  /\ variant = "jsdom"
  /\ SCRAPER_API_KEY = TRUE
  /\ ScrapeIdle
  /\ ConcIdle
  /\ userId = Null
  /\ checkingAuth = TRUE
  /\ wishlist_items = <<>>
  /\ draft = EmptyDraft
  /\ items = <<>>
  /\ loadingItems = TRUE
  /\ saving = FALSE
  /\ scraping = FALSE
  /\ errorMsg = Null
  /\ scrapeCall = IdleCall
  /\ saveCall = IdleSave
  /\ loads = <<>>
  /\ CartIdle
  /\ BudgetIdle

AdminFrame == UNCHANGED <<scrapeVars, concVars, cartVars, budgetVars>>

\* AdminPage.loadItems up to its await (route.ts 1974-1982): the select
\* sent sees at least the rows the table holds now
loadItems ==
  /\ loadingItems' = TRUE
  /\ loads' = Append(loads, Len(wishlist_items))

\* .order('priority', desc).order('created_at', asc) on the rows of owner
Ordered(rows, owner) ==
  LET Of(pr) == SelectSeq(rows, LAMBDA r : r.owner_id = owner /\ r.priority = pr)
  IN Of(5) \o Of(4) \o Of(3) \o Of(2) \o Of(1) \o Of(0)

\* the auth effect (route.ts 1957-1972): no user, or the user, whose items
\* are then loaded
AdminAuthResolves ==
  /\ checkingAuth
  /\ checkingAuth' = FALSE
  /\ \/ /\ userId' = Null
        /\ UNCHANGED <<loadingItems, loads>>
     \/ /\ userId' = <<"u1">>
        /\ loadItems
  /\ UNCHANGED <<wishlist_items, draft, items, saving, scraping, errorMsg,
                 scrapeCall, saveCall>>
  /\ AdminFrame

\* the select of a loadItems call is answered (route.ts 1984-1987) with the
\* rows the table held at some moment since the call, or with an error
loadItems_settled ==
  /\ \E i \in 1..Len(loads) :
       /\ loads' = SubSeq(loads, 1, i - 1) \o SubSeq(loads, i + 1, Len(loads))
       /\ \/ \E k \in loads[i]..Len(wishlist_items) :
               items' = Ordered(SubSeq(wishlist_items, 1, k), userId)
          \/ UNCHANGED items
  /\ loadingItems' = FALSE
  /\ UNCHANGED <<authVars, wishlist_items, draft, saving, scraping, errorMsg,
                 scrapeCall, saveCall>>
  /\ AdminFrame

\* the user edits a field of the form
UserTypes ==
  /\ ~checkingAuth
  /\ \E t \in Typings : draft' = [draft EXCEPT ![t[1]] = t[2]]
  /\ UNCHANGED <<authVars, wishlist_items, items, loadingItems, saving, scraping,
                 errorMsg, scrapeCall, saveCall, loads>>
  /\ AdminFrame

\* handleScrape that stores what it scraped right away
ScrapeFrameAutoSave ==
  /\ wishlist_items' =
       IF scrapeCall'.outcome = "ok" /\ Len(wishlist_items) < MaxRows + 1
       THEN Append(wishlist_items, [NoRow EXCEPT !.title = draft'.title])
       ELSE wishlist_items
  /\ UNCHANGED <<authVars, items, loadingItems, saving, saveCall, loads>>
  /\ AdminFrame

\* what no statement of handleScrape touches (route.ts 1990-2018)
ScrapeFrame ==
  /\ UNCHANGED <<authVars, wishlist_items, items, loadingItems, saving, saveCall, loads>>
  /\ AdminFrame

\* AdminPage.handleScrape up to its await of fetch (route.ts 1990-2001);
\* the button is disabled while scraping or without a url (2205)
handleScrape ==
  /\ ~checkingAuth
  /\ ~scraping
  /\ draft.url # <<>>
  /\ scraping' = TRUE
  /\ errorMsg' = Null
  /\ scrapeCall' = [pc |-> "fetching", outcome |-> "none", data |-> NoData]
  /\ UNCHANGED draft
  /\ ScrapeFrame

\* handleScrape from the settled fetch (route.ts 2003-2006, 2012-2017):
\* the fetch failed, the response is not OK, or it is OK and res.json() is
\* awaited
handleScrape_fetchSettled ==
  /\ scrapeCall.pc = "fetching"
  /\ \/ /\ errorMsg' = <<"Unexpected error while scraping product.">>
        /\ scraping' = FALSE
        /\ scrapeCall' = [pc |-> "idle", outcome |-> "rejected", data |-> NoData]
     \/ /\ errorMsg' = <<"Could not fetch product details automatically.">>
        /\ scraping' = FALSE
        /\ scrapeCall' = [pc |-> "idle", outcome |-> "notok", data |-> NoData]
     \/ /\ scrapeCall' = [scrapeCall EXCEPT !.pc = "parsing"]
        /\ UNCHANGED <<errorMsg, scraping>>
  /\ UNCHANGED draft
  /\ ScrapeFrame

\* if (data.x) setX(data.x) with every miss clearing the field
OverwriteAlways(prev, returned) == IF Truthy(returned) THEN returned ELSE <<>>

\* if (data.x) setX(data.x) (route.ts 2007-2009)
Overwrite(prev, returned) == IF Truthy(returned) THEN returned ELSE prev

\* handleScrape from the settled res.json() (route.ts 2006-2017)
handleScrape_jsonSettled ==
  /\ scrapeCall.pc = "parsing"
  /\ \/ \E data \in ScrapeData :
          /\ draft' =
               [draft EXCEPT
                  !.title = Overwrite(@, data.title),
                  !.description = Overwrite(@, data.description),
                  !.imageUrl = Overwrite(@, data.imageUrl),
                  !.price = IF data.price # NoPrice
                            THEN NumberString(data.price[1]) ELSE @]
          /\ scrapeCall' = [pc |-> "idle", outcome |-> "ok", data |-> data]
          /\ UNCHANGED errorMsg
     \/ /\ errorMsg' = <<"Unexpected error while scraping product.">>
        /\ scrapeCall' = [pc |-> "idle", outcome |-> "rejected", data |-> NoData]
        /\ UNCHANGED draft
  /\ scraping' = FALSE
  /\ ScrapeFrame

\* price ? parseFloat(price) : NaN, then Math.round(priceNumber * 100)
PriceCents(price) ==
  LET priceNumber == IF price = <<>> THEN NaN ELSE ParseFloatSigned(price)
  IN IF priceNumber = NaN THEN NoPrice ELSE Num(MathRound(priceNumber[1] * 100))

\* x.trim() || null
TrimOrNull(t) == IF Trim(t) = <<>> THEN Null ELSE Trim(t)

\* AdminPage.handleSave up to its await of the insert (route.ts 2020-2041);
\* the form is submitted with a url only (2188) and not while saving (2326)
handleSave ==
  /\ ~checkingAuth
  /\ ~saving
  /\ draft.url # <<>>
  /\ Len(wishlist_items) < MaxRows
  /\ IF userId = Null
     THEN UNCHANGED <<errorMsg, saving, saveCall>>
     ELSE IF Trim(draft.title) = <<>>
     THEN /\ errorMsg' = <<"Please add a title">>
          /\ UNCHANGED <<saving, saveCall>>
     ELSE /\ saving' = TRUE
          /\ errorMsg' = Null
          /\ saveCall' =
               [pc |-> "inserting", error |-> FALSE,
                row |-> [owner_id |-> userId,
                         title |-> Trim(draft.title),
                         description |-> TrimOrNull(draft.description),
                         product_url |-> TrimOrNull(draft.url),
                         image_url |-> TrimOrNull(draft.imageUrl),
                         price_cents |-> PriceCents(draft.price),
                         priority |-> draft.priority]]
  /\ UNCHANGED <<authVars, wishlist_items, draft, items, loadingItems, scraping,
                 scrapeCall, loads>>
  /\ AdminFrame

\* the table takes the row, or refuses it
InsertServed ==
  /\ saveCall.pc = "inserting"
  /\ \/ /\ wishlist_items' = Append(wishlist_items, saveCall.row)
        /\ saveCall' = [saveCall EXCEPT !.pc = "served"]
     \/ /\ saveCall' = [saveCall EXCEPT !.pc = "served", !.error = TRUE]
        /\ UNCHANGED wishlist_items
  /\ UNCHANGED <<authVars, draft, items, loadingItems, saving, scraping, errorMsg,
                 scrapeCall, loads>>
  /\ AdminFrame

\* handleSave from the settled insert (route.ts 2043-2055)
handleSave_settled ==
  /\ saveCall.pc = "served"
  /\ IF saveCall.error
     THEN /\ errorMsg' = <<"error.message">>
          /\ UNCHANGED <<draft, loadingItems, loads>>
     ELSE /\ draft' = EmptyDraft
          /\ loadItems
          /\ UNCHANGED errorMsg
  /\ saving' = FALSE
  /\ saveCall' = [saveCall EXCEPT !.pc = "idle"]
  /\ UNCHANGED <<authVars, wishlist_items, items, scraping, scrapeCall>>
  /\ AdminFrame

AdminNext ==
  \/ AdminAuthResolves
  \/ loadItems_settled
  \/ UserTypes
  \/ handleScrape
  \/ handleScrape_fetchSettled
  \/ handleScrape_jsonSettled
  \/ handleSave
  \/ InsertServed
  \/ handleSave_settled

AdminSpec == AdminInit /\ [][AdminNext]_vars


(* ---------------------------------------------------------------------- *)
(* The cart of the shop page                                               *)
(* ---------------------------------------------------------------------- *)

\* the cart handler invocations that may be under way at once, and the
\* row ids the table hands out
MaxInFlight == 2
MaxCartIds == 2

\* the wishlist items on the page, with price_cents (an item may have none)
Wishlist == {"w1"}
PriceCentsOf(w) == IF w = "w1" THEN Num(1999) ELSE NoPrice

CartRow(id, w, purchased) ==
  [id |-> id, wishlist_item_id |-> w, quantity |-> 1, purchased |-> purchased]

\* a plain insert in place of the upsert: a second row for the same item
UpsertAsInsert(table, id, w) == table \cup {CartRow(id, w, FALSE)}

\* upsert({user_id, wishlist_item_id, quantity: 1, purchased: false},
\* {onConflict: 'user_id,wishlist_item_id'}) (route.ts 978-986)
Upsert(table, id, w) ==
  IF \E r \in table : r.wishlist_item_id = w
  THEN {IF r.wishlist_item_id = w
        THEN [r EXCEPT !.quantity = 1, !.purchased = FALSE] ELSE r : r \in table}
  ELSE table \cup {CartRow(id, w, FALSE)}

\* update({purchased}).eq('id', cartId) (route.ts 991, 996)
UpdatePurchased(table, id, purchased) ==
  {IF r.id = id THEN [r EXCEPT !.purchased = purchased] ELSE r : r \in table}

\* delete().eq('id', cartId) (route.ts 1001)
Delete(table, id) == {r \in table : r.id # id}

\* the table after the mutation of call c
Mutated(table, c) ==
  IF c.op = "add" THEN Upsert(table, nextId, c.target)
  ELSE IF c.op = "bought" THEN UpdatePurchased(table, c.target, TRUE)
  ELSE IF c.op = "tocart" THEN UpdatePurchased(table, c.target, FALSE)
  ELSE Delete(table, c.target)

\* ShopPage totals (route.ts 941-956)
inCart == {c \in cartRows : ~c.purchased}
boughtItems == {c \in cartRows : c.purchased}
Amount(c) ==
  LET price == PriceCentsOf(c.wishlist_item_id)
  IN IF price = NoPrice THEN 0 ELSE price[1] * c.quantity
RECURSIVE TotalCents(_)
TotalCents(rows) ==
  IF rows = {} THEN 0
  ELSE LET c == CHOOSE x \in rows : TRUE
       IN Amount(c) + TotalCents(rows \ {c})
totalCentsPlanned == TotalCents(inCart)
totalCentsSpent == TotalCents(boughtItems)
totalCentsOverall == totalCentsPlanned + totalCentsSpent

CartInit ==
  /\ variant = "jsdom"
  /\ SCRAPER_API_KEY = TRUE
  /\ ScrapeIdle
  /\ ConcIdle
  /\ userId = Null
  /\ checkingAuth = TRUE
  /\ AdminIdle
  /\ cart_items = {}
  /\ nextId = 1
  /\ cartRows = {}
  /\ loadingCart = TRUE
  /\ cartCalls = <<>>
  /\ failed = FALSE
  /\ BudgetIdle

CartFrame == UNCHANGED <<scrapeVars, concVars, adminVars, budgetVars>>

\* an invocation that has reached refreshCart's select (route.ts 884-890)
Refreshing == [op |-> "load", target |-> "", pc |-> "selecting", data |-> {}, error |-> FALSE]

\* the bag of invocations with one c replaced by d, or taken out
Replaced(c, d) == (cartCalls (-) SetToBag({c})) (+) SetToBag({d})
Finished(c) == cartCalls (-) SetToBag({c})

\* the auth effect and the effect on userId (route.ts 824-834, 879-882)
ShopAuthResolves ==
  /\ checkingAuth
  /\ checkingAuth' = FALSE
  /\ \/ /\ userId' = Null
        /\ UNCHANGED <<cartCalls, loadingCart>>
     \/ /\ userId' = <<"u1">>
        /\ loadingCart' = TRUE
        /\ cartCalls' = cartCalls (+) SetToBag({Refreshing})
  /\ UNCHANGED <<cart_items, nextId, cartRows, failed>>
  /\ CartFrame

\* a cart handler up to its await of the mutation
Click(op, target) ==
  /\ BagCardinality(cartCalls) < MaxInFlight
  /\ cartCalls' = cartCalls (+) SetToBag({[op |-> op, target |-> target, pc |-> "sent",
                                           data |-> {}, error |-> FALSE]})
  /\ UNCHANGED <<authVars, cart_items, nextId, cartRows, loadingCart, failed>>
  /\ CartFrame

\* the rows the table may still have to create for the clicks under way
PendingAdds ==
  LET adds == {c \in DOMAIN cartCalls : c.op = "add" /\ c.pc = "sent"}
  IN BagCardinality([c \in adds |-> cartCalls[c]])

\* ShopPage.handleAddToCart (route.ts 976-986); the button is disabled
\* while the page shows the item as bought (1524)
handleAddToCart ==
  /\ userId # Null
  /\ nextId + PendingAdds <= MaxCartIds
  /\ \E w \in Wishlist :
       /\ ~\E c \in cartRows : c.wishlist_item_id = w /\ c.purchased
       /\ Click("add", w)

\* ShopPage.handleMoveToBought (route.ts 990-991), on a row shown in the cart
handleMoveToBought ==
  \E c \in inCart : Click("bought", c.id)

\* ShopPage.handleMoveToCart (route.ts 995-996), on a row shown as bought
handleMoveToCart ==
  \E c \in boughtItems : Click("tocart", c.id)

\* ShopPage.handleRemoveFromCart (route.ts 1000-1001), on a row shown in
\* the cart
handleRemoveFromCart ==
  \E c \in inCart : Click("remove", c.id)

\* the table carries out the mutation of an invocation, or the request
\* fails; either answer resumes the handler, which calls refreshCart
\* (route.ts 987, 992, 997, 1002, 884-890; userId is set in every
\* invocation that got this far)
refreshCart ==
  \E c \in DOMAIN cartCalls :
    /\ c.pc = "sent"
    /\ \/ /\ cart_items' = Mutated(cart_items, c)
          /\ nextId' = IF Cardinality(cart_items') > Cardinality(cart_items)
                       THEN nextId + 1 ELSE nextId
          /\ UNCHANGED failed
       \/ /\ failed' = TRUE
          /\ UNCHANGED <<cart_items, nextId>>
    /\ cartCalls' = Replaced(c, [c EXCEPT !.pc = "selecting"])
    /\ loadingCart' = TRUE
    /\ UNCHANGED <<authVars, cartRows>>
    /\ CartFrame

\* the table answers the select of an invocation with the rows it holds,
\* or the request fails
SelectServed ==
  \E c \in DOMAIN cartCalls :
    /\ c.pc = "selecting"
    /\ \/ /\ cartCalls' = Replaced(c, [c EXCEPT !.pc = "selected", !.data = cart_items])
          /\ UNCHANGED failed
       \/ /\ cartCalls' = Replaced(c, [c EXCEPT !.pc = "selected", !.error = TRUE])
          /\ failed' = TRUE
    /\ UNCHANGED <<authVars, cart_items, nextId, cartRows, loadingCart>>
    /\ CartFrame

\* refreshCart from the settled select (route.ts 892-895): the answers
\* arrive in any order
refreshCart_settled ==
  \E c \in DOMAIN cartCalls :
    /\ c.pc = "selected"
    /\ cartRows' = IF c.error THEN cartRows ELSE c.data
    /\ loadingCart' = FALSE
    /\ cartCalls' = Finished(c)
    /\ UNCHANGED <<authVars, cart_items, nextId, failed>>
    /\ CartFrame

CartNext ==
  \/ ShopAuthResolves
  \/ handleAddToCart
  \/ handleMoveToBought
  \/ handleMoveToCart
  \/ handleRemoveFromCart
  \/ refreshCart
  \/ SelectServed
  \/ refreshCart_settled

CartSpec == CartInit /\ [][CartNext]_vars


(* ---------------------------------------------------------------------- *)
(* Properties                                                              *)
(* ---------------------------------------------------------------------- *)

Done == pc = "done"
Succeeded == pc = "done" /\ response.status = 200

\* the request carries a url string that does not parse or is not http(s)
InvalidUrlBody ==
  /\ body.kind = "object"
  /\ body.urlType = "string"
  /\ body.url # <<>>
  /\ ~IsHttpUrl(body.url)

\* some fetch call of the request went out on the network
SentCalls == {i \in 1..Len(fetchLog) : fetchLog[i].sent}
TierCalls(tier) == {i \in 1..Len(fetchLog) : fetchLog[i].tier = tier}

\* C1: a request whose url does not parse as a URL, or is not http/https,
\* is answered with status 400 and no fetch is ever attempted for it.
C1_InvalidUrlRejectedBeforeFetch ==
  InvalidUrlBody =>
    /\ fetchLog = <<>>
    /\ Done => response.status = 400

\* C2: when the direct fetch answers 200 with a body under the
\* minimum-content threshold, the rendering service is tried if a credential
\* is configured, and otherwise the request fails with 502; the short body
\* is never parsed into a success response.
C2_ShortBodyFallsBack ==
  ( /\ Done
    /\ TierCalls("direct") # {}
    /\ reply.state = "resolved" /\ reply.ok
    /\ text.state = "resolved" /\ text.page.short )
  => /\ SCRAPER_API_KEY => TierCalls("scraper") # {}
     /\ ~SCRAPER_API_KEY => response.status = 502

\* C3: a request whose upstream fetch failed (non-OK status or network
\* error) is answered 502; 400 is answered only for a missing or invalid
\* url, and 500 neither for a failed fetch nor for a missing url.
C3_StatusTaxonomy ==
  LET fetchFailed == /\ SentCalls # {}
                     /\ \/ reply.state = "rejected"
                        \/ reply.state = "resolved" /\ ~reply.ok
      missingUrl == /\ body.kind = "object"
                    /\ body.urlType # "string" \/ body.url = <<>>
      badUrl == missingUrl \/ InvalidUrlBody
  IN Done =>
       /\ fetchFailed => response.status = 502
       /\ response.status = 400 => badUrl
       /\ response.status = 500 => ~fetchFailed /\ ~missingUrl

\* C4: every request is eventually answered, even when the upstream never
\* answers the fetch: the call is aborted when its time bound elapses.
C4_EventuallyResponds == <>(pc = "done")

\* C5: at most two outbound calls per request, never two in flight at once,
\* no tier called twice, and the rendering service is called only after a
\* direct fetch.
C5_TwoSequentialTiers ==
  /\ Len(fetchLog) <= 2
  /\ Cardinality(inflight) <= 1
  /\ Cardinality(TierCalls("direct")) <= 1
  /\ Cardinality(TierCalls("scraper")) <= 1
  /\ \A i \in TierCalls("scraper") : \E j \in TierCalls("direct") : j < i

\* C6: no exception escapes POST: whatever the outcome of parsing the
\* request body, of the fetch (a thrown network error included), of reading
\* the body and of the extraction, a finished handler has returned a
\* response with status 200, 400, 500 or 502, and a thrown error gives 500.
C6_NoExceptionEscapes ==
  Done =>
    /\ response.status \in {200, 400, 500, 502}
    /\ ( \/ body.kind \in {"badjson", "jsonnull"}
         \/ reply.state = "rejected"
         \/ text.state = "rejected" ) => response.status = 500

\* a network error was thrown by the fetch and the handler still answered
C6_Witness ==
  /\ Done
  /\ reply.state = "rejected"
  /\ response.status = 500

C8_PricePositiveTwoDecimals ==
  Succeeded =>
    \/ response.price = NoPrice
    \/ /\ response.price[1] > 0
       /\ response.price[1] % Cent = 0

\* C9: the imageUrl of a success response is null or an absolute http(s)
\* URL; no relative or protocol-relative candidate is returned unresolved.
C9_ImageUrlAbsolute ==
  Succeeded =>
    \/ response.imageUrl = Null
    \/ IsHttpUrl(response.imageUrl)

\* C10: normalization takes a comma for the decimal separator only when the
\* text has a comma and no dot, and otherwise drops commas: a page whose one
\* price candidate is "29,99" gives 29.99, "1299,99" gives 1299.99 and
\* "$1,299.99" gives 1299.99.
C10_CommaRule ==
  Succeeded =>
    \A t \in {T_29c99, T_1299c99, T_1299_99} :
      LET candidate ==
            IF variant = "jsdom" THEN [metaItempropPrice |-> t]
            ELSE [jsonLd |-> <<ObjectBlock(Entry(JStr(t), JAbsent, JAbsent))>>]
          expected ==
            IF t = T_29c99 THEN 2999 * Cent ELSE 129999 * Cent
      IN text.page = With(EmptyPage, candidate) => response.price = Num(expected)


\* a success response to a request whose url is a proper http(s) URL
ValidSuccess == Succeeded /\ IsHttpUrl(body.url)

\* the normalizer of the handler that serves the request
Normalize(t) == IF variant = "jsdom" THEN parsePrice(t) ELSE cleanPrice(t)

\* the page whose one price candidate is the text t, where the handler that
\* serves the request reads it
OneCandidatePage(t) ==
  IF variant = "jsdom" THEN With(EmptyPage, [metaItempropPrice |-> t])
  ELSE With(EmptyPage, [jsonLd |-> <<ObjectBlock(Entry(JStr(t), JAbsent, JAbsent))>>])

\* C11: normalization gives null for a candidate text that denotes a
\* non-positive number, "-5" and "0" in particular, and for an empty or
\* absent text: a page whose one price candidate is such a text has a null
\* price.
C11_NonPositiveIsNull ==
  ValidSuccess =>
    /\ \A t \in {T_neg5, T_zero, <<>>} :
         text.page = OneCandidatePage(t) => response.price = NoPrice
    /\ Only(text.page, PriceFields) = Only(EmptyPage, PriceFields) =>
         response.price = NoPrice

\* the price candidates of a page by the tiers of the price resolver: meta
\* tags, site-specific probes, JSON-LD, last-resort '$' pattern
MetaTierTexts(doc) == <<doc.metaProductPrice, doc.metaItempropPrice>>
SiteTierTexts(doc) ==
  << doc.corePriceDisplay, doc.corePriceFeature, doc.priceblockOurprice,
     doc.priceblockDealprice, doc.priceViewCustomer >>
AcceptedOf(texts) ==
  {Normalize(texts[i]) : i \in 1..Len(texts)} \ {NoPrice}

\* C12: the price is the normalized value of the first accepted candidate
\* in the tier order meta tags, site-specific probes, JSON-LD, generic
\* microdata, '$' pattern: an accepted meta-tag candidate supplies the price,
\* failing that an accepted site-specific one, and a candidate that is
\* absent or rejected does not keep a later one from supplying the price.
C12_TierOrder ==
  ValidSuccess =>
    LET doc == text.page
        meta == AcceptedOf(MetaTierTexts(doc))
        site == AcceptedOf(SiteTierTexts(doc))
        jsonStrings ==
          { e[f].s : e \in UNION {{b.entries[i] : i \in 1..Len(b.entries)} :
                                    b \in {doc.jsonLd[k] : k \in 1..Len(doc.jsonLd)}},
                     f \in {"offersPrice", "offersHighPrice", "price"} }
        json == {Normalize(t) : t \in jsonStrings} \ {NoPrice}
    IN /\ meta # {} => response.price \in meta
       /\ (meta = {} /\ site # {}) => response.price \in site
       /\ (meta = {} /\ site = {} /\ json # {}) => response.price \in json


\* the base URL candidates are resolved against: the post-redirect URL of
\* the page, the request URL when the reply carries none
BaseUrl == FinalUrl(reply.url, body.url)

\* C13: a candidate starting with '//' gets the base URL's scheme, one
\* starting with '/' the base URL's origin, one starting with http:// or
\* https:// is returned unchanged, and any other is resolved as a relative
\* reference against the base URL: a page whose one image candidate is of
\* one of these forms has that resolution as its imageUrl.
C13_ResolutionRules ==
  (ValidSuccess /\ IsHttpUrl(BaseUrl) /\ ~IsAmazonHost(HostOf(BaseUrl))) =>
    /\ text.page = With(EmptyPage, [ogImage |-> ImgProtoRel]) =>
         response.imageUrl = <<BaseUrl[1]>> \o ImgProtoRel
    /\ text.page = With(EmptyPage, [ogImage |-> ImgRooted]) =>
         response.imageUrl = <<BaseUrl[1], BaseUrl[2], BaseUrl[3]>> \o ImgRooted
    /\ text.page = With(EmptyPage, [ogImage |-> ImgAbs]) =>
         response.imageUrl = ImgAbs
    /\ text.page = With(EmptyPage, [imgs |-> <<Img(ImgRelative, Null)>>]) =>
         response.imageUrl =
           <<BaseUrl[1], BaseUrl[2], BaseUrl[3]>>
           \o DirOf(SubSeq(BaseUrl, 4, Len(BaseUrl))) \o ImgRelative

\* C14: a candidate that cannot be resolved against the base URL gives no
\* URL: the request still succeeds and the unresolved candidate text is not
\* returned, so a page whose one image candidate cannot be resolved has a
\* null imageUrl.
C14_UnresolvableIsNull ==
  ( /\ Done
    /\ IsHttpUrl(body.url)
    /\ text.state = "resolved"
    /\ text.page = With(EmptyPage, [ogImage |-> ImgBadFtp]) )
  => /\ response.status = 200
     /\ response.imageUrl = Null

\* C15: the title is the whitespace-normalized value of the first of
\* og:title, then twitter:title or name=title, then <title>, whose
\* normalized value is not empty; an earlier source that is empty or only
\* whitespace does not stop a later one.
C15_TitleChain ==
  ValidSuccess =>
    LET doc == text.page
        N(x) == IF x = Null THEN <<>> ELSE NormalizeWs(x)
        second == {N(doc.twitterTitle), N(doc.nameTitle)} \ {<<>>}
    IN IF N(doc.ogTitle) # <<>> THEN response.title = N(doc.ogTitle)
       ELSE IF second # {} THEN response.title \in second
       ELSE IF N(doc.titleTag) # <<>> THEN response.title = N(doc.titleTag)
       ELSE response.title = Null

\* C16: the description is taken from meta[name=description] before
\* og:description before twitter:description: a page that carries both a
\* name=description and a different og:description gets the former.
C16_DescriptionOrder ==
  ValidSuccess =>
    LET doc == text.page
    IN ( /\ Truthy(doc.metaDescription)
         /\ Truthy(doc.ogDescription)
         /\ doc.metaDescription # doc.ogDescription )
       => response.description = NormalizeWs(doc.metaDescription)

\* C17: on an Amazon page whose landing image has a JSON-shaped
\* data-a-dynamic-image attribute (and no data-old-hires), the first key of
\* that JSON object is the imageUrl.
C17_DynamicImageKey ==
  ValidSuccess =>
    LET el == text.page.landingImage
    IN ( /\ IsAmazonHost(HostOf(BaseUrl))
         /\ el.present
         /\ ~Truthy(el.oldHires)
         /\ Truthy(el.dynamicImage)
         /\ StartsWith(el.dynamicImage, <<"{">>) )
       => response.imageUrl = SubSeq(el.dynamicImage, 2, Len(el.dynamicImage) - 1)

\* C18: no returned imageUrl matches a tracking-pixel pattern: such a
\* candidate is discarded, the next surviving candidate is used, and the
\* imageUrl is null when none survives.
C18_NoTrackingPixel ==
  ValidSuccess =>
    /\ response.imageUrl # Null => ~IsTracking(response.imageUrl)
    /\ text.page = With(EmptyPage, [ogImage |-> ImgPixel, imgs |-> <<Img(ImgAbs, Null)>>])
         => response.imageUrl = ImgAbs
    /\ text.page = With(EmptyPage, [ogImage |-> ImgPixel])
         => response.imageUrl = Null

\* C19: when no meta or link image exists, the generic resolver returns
\* the first <img src> that is no data: URI and whose declared width and
\* height, when present, are both at least 120, and null when there is none
\* (pages whose <img src> values are absolute already).
C19_ImgFallback ==
  ValidSuccess =>
    LET doc == text.page
        Big(size) == size = <<>> \/ size[1] >= 120
        Eligible(img) ==
          /\ Truthy(img.src)
          /\ img.src[1] # "data:"
          /\ Big(img.width)
          /\ Big(img.height)
        eligible == SelectSeq(doc.imgs, Eligible)
    IN ( /\ ~IsAmazonHost(HostOf(BaseUrl))
         /\ Only(doc, {"imgs"}) = doc
         /\ doc.imgs # <<>>
         /\ \A i \in 1..Len(doc.imgs) :
              IsHttpUrl(doc.imgs[i].src) \/ doc.imgs[i].src[1] = "data:" )
       => response.imageUrl = IF eligible = <<>> THEN Null ELSE eligible[1].src

\* C20: on a Best Buy page the price from the priority selectors is the
\* first candidate, in selector order, whose normalized value is at least
\* 10: the candidates 4.99 and 249.99 give 249.99.
C20_BestBuyFloor ==
  ( /\ ValidSuccess
    /\ HostOf(BaseUrl) = "www.bestbuy.com"
    /\ text.page = With(EmptyPage, [priceViewCustomer |-> T_d4_99,
                                    priceClass |-> T_d249_99]) )
  => response.price = Num(24999 * Cent)


\* the price a JSON value of a JSON-LD entry holds: a JSON number holds
\* itself, a JSON string the number it is normalized to
HeldJson(j) == IF j.t = "number" THEN Num(j.n) ELSE cleanPrice(j.s)

\* the price an entry holds, probing offers.price, offers.highPrice, price
HeldEntry(obj) ==
  IF obj.isNull THEN NoPrice
  ELSE IF JTruthy(obj.offersPrice) THEN HeldJson(obj.offersPrice)
  ELSE IF JTruthy(obj.offersHighPrice) THEN HeldJson(obj.offersHighPrice)
  ELSE IF JTruthy(obj.price) THEN HeldJson(obj.price)
  ELSE NoPrice

\* the value a block produces: none when it does not parse, else the price
\* of its first entry that holds one
HeldBlock(block) ==
  IF ~block.parses THEN NoPrice
  ELSE LET held == SelectSeq(block.entries, LAMBDA e : HeldEntry(e) # NoPrice)
       IN IF held = <<>> THEN NoPrice ELSE HeldEntry(held[1])

\* the value of the first block, in document order, that produces one
FirstHeld(blocks) ==
  LET held == SelectSeq(blocks, LAMBDA b : HeldBlock(b) # NoPrice)
  IN IF held = <<>> THEN NoPrice ELSE HeldBlock(held[1])

\* C21: in the handler that reads JSON-LD, on a page with several
\* application/ld+json blocks a block that fails to parse does not fail the
\* request, and the price is the value of the first block, in document
\* order, that produces one.
C21_FirstBlockWins ==
  (variant = "scraperapi" /\ IsHttpUrl(body.url) /\ Done
     /\ text.state = "resolved" /\ Len(text.page.jsonLd) >= 2)
  => /\ response.status = 200
     /\ FirstHeld(text.page.jsonLd) # NoPrice
          => response.price = FirstHeld(text.page.jsonLd)

\* the fetch tier whose HTML the handler parsed
TierOf(v) == IF v = "jsdom" THEN "direct" ELSE "scraper"

\* C22: every success response carries a source field naming the fetch
\* tier that supplied the parsed HTML: "direct" for the direct fetch,
\* "scraper" for the rendering service.
C22_SourceField ==
  ValidSuccess =>
    /\ "source" \in DOMAIN response
    /\ response.source = TierOf(variant)

\* the page served on an Amazon URL that a request for another site was
\* redirected to, parsed by the handler that has an Amazon variant
OnAmazon == variant = "jsdom" /\ IsAmazonHost(HostOf(BaseUrl))

\* C25: the Amazon image variant runs exactly when the hostname of the
\* post-redirect URL contains 'amazon.' or is 'a.co'; when it yields no image
\* the result of the generic variant on the same document is returned, and
\* on every other hostname the result of the generic variant is returned.
C25_VariantByFinalHost ==
  (ValidSuccess /\ variant = "jsdom") =>
    LET amazon == pickAmazonImage(text.page, BaseUrl)
        generic == pickGenericImage(text.page, BaseUrl)
    IN response.imageUrl =
         IF HostOf(BaseUrl) \in AmazonHosts /\ amazon # Null THEN amazon
         ELSE generic

\* a redirect from another site ended on Amazon, the Amazon variant found
\* nothing and the image of the generic variant was returned
C25_Witness ==
  /\ ValidSuccess
  /\ OnAmazon
  /\ ~IsAmazonHost(HostOf(body.url))
  /\ pickAmazonImage(text.page, BaseUrl) = Null
  /\ response.imageUrl # Null
  /\ response.imageUrl = pickGenericImage(text.page, BaseUrl)

\* the candidates of pickAmazonImage that survive resolution and the
\* tracking-pixel filter, in probe order: landing image attributes, wrapper
\* image attributes, og/twitter meta
Survivors(doc, finalUrl) ==
  LET og == Or(doc.ogImage, doc.twitterImage)
  IN AbsoluteCandidates(AmazonElementCandidates(doc.landingImage)
                        \o AmazonElementCandidates(doc.wrapperImg)
                        \o (IF Truthy(og) THEN <<og>> ELSE <<>>), finalUrl)

\* C30: among the surviving candidates pickAmazonImage returns the first
\* one whose URL contains 'm.media-amazon.com' when there is one, and the
\* first surviving candidate otherwise.
C30_MediaHostPreferred ==
  (ValidSuccess /\ OnAmazon) =>
    LET surv == Survivors(text.page, BaseUrl)
        media == {i \in 1..Len(surv) : Includes(surv[i], MediaAmazonTokens)}
    IN surv # <<>> =>
         response.imageUrl =
           IF media # {} THEN surv[CHOOSE i \in media : \A j \in media : i <= j]
           ELSE surv[1]

\* the first survivor is not on m.media-amazon.com, a later one is, and the
\* later one was returned
C30_Witness ==
  /\ ValidSuccess
  /\ OnAmazon
  /\ LET surv == Survivors(text.page, BaseUrl)
     IN /\ Len(surv) >= 2
        /\ ~Includes(surv[1], MediaAmazonTokens)
        /\ Includes(response.imageUrl, MediaAmazonTokens)
        /\ response.imageUrl # surv[1]

\* the response of a request served alone, from its body and from the
\* upstream's answers to it
ResponseAlone(v, key, c) ==
  IF c.body.kind \in {"badjson", "jsonnull"} THEN Catch(v)
  ELSE IF c.body.urlType # "string" \/ c.body.url = <<>> THEN MissingUrlResponse(v)
  ELSE IF v = "jsdom" /\ ~IsHttpUrl(c.body.url) THEN Catch(v)
  ELSE IF v = "scraperapi" /\ ~key
  THEN ErrorResponse(500, "Server not configured for scraping")
  ELSE IF c.reply.state = "rejected" THEN Catch(v)
  ELSE IF ~c.reply.ok THEN NotOkResponse(v)
  ELSE IF c.text.state = "rejected" THEN Catch(v)
  ELSE SuccessResponse(v, c.text.page, FinalUrl(c.reply.url, c.body.url))

\* the single request answers as ResponseAlone says
AloneAgrees ==
  Done => response = ResponseAlone(variant, SCRAPER_API_KEY,
                                   [body |-> body, reply |-> reply, text |-> text])

\* C23: under any interleaving of simultaneous requests the response of
\* each request is the one it would get alone against the same upstream
\* answers.
C23_RequestsIndependent ==
  \A r \in DOMAIN calls :
    calls[r].pc = "done" =>
      calls[r].response = ResponseAlone(variant, SCRAPER_API_KEY, calls[r])

\* two requests served at the same time ended in different success
\* responses
C23_Witness ==
  /\ calls # <<>>
  /\ \A r \in Requests : calls[r].pc = "done" /\ calls[r].response.status = 200
  /\ calls[1].response # calls[2].response

\* the decimal text of a non-negative integer
IsNaturalText(t) ==
  /\ t # <<>>
  /\ \A i \in 1..Len(t) : t[i] \in Digits
  /\ Len(t) > 1 => t[1] # "0"

\* C29: after stepBudget('up') or stepBudget('down'), from whatever text
\* handleBudgetInputChange let into the box, the budget is the decimal text
\* of a non-negative integer.
C29_StepKeepsNatural ==
  [][(\E direction \in {"up", "down"} : stepBudget(direction))
       => IsNaturalText(budget')]_vars

\* a step of handleScrape, and the step in which it finishes
ScrapeStep == scrapeCall' # scrapeCall
ScrapeFinishes == scrapeCall.pc # "idle" /\ scrapeCall'.pc = "idle"

\* C24: a row enters wishlist_items only in the insert that handleSave
\* sent, and it is the row handleSave built; no step of handleScrape
\* changes the table or anything beside the form, the scraping flag and
\* the error message.
C24_OnlySaveInserts ==
  [][ /\ wishlist_items' # wishlist_items =>
           /\ saveCall.pc = "inserting"
           /\ wishlist_items' = Append(wishlist_items, saveCall.row)
           /\ ~ScrapeStep
      /\ ScrapeStep =>
           UNCHANGED <<wishlist_items, items, loadingItems, saving, saveCall,
                       loads, userId>> ]_vars

\* a scrape filled the form, and the row stored afterwards is the one
\* handleSave sent
C24_Witness ==
  /\ scrapeCall # <<>>
  /\ scrapeCall.outcome = "ok"
  /\ scrapeCall.data.title = <<"Widget">>
  /\ Len(wishlist_items) = 1
  /\ wishlist_items[1].title = <<"Widget">>
  /\ saveCall.pc = "served"

\* C26: when handleScrape finishes the scraping flag is false; after a
\* success response each of title, description and image URL is the
\* returned value when that is not null and its previous value otherwise,
\* the price is the text of the returned number when that is not null (0
\* included) and its previous value otherwise; after a response that is not
\* OK or a thrown error the form is unchanged and an error message is set.
C26_ScrapeFillsDraft ==
  [][ ScrapeFinishes =>
        LET data == scrapeCall'.data
            Kept(prev, returned) == IF returned # Null THEN returned ELSE prev
        IN /\ scraping' = FALSE
           /\ scrapeCall'.outcome = "ok" =>
                /\ draft'.title = Kept(draft.title, data.title)
                /\ draft'.description = Kept(draft.description, data.description)
                /\ draft'.imageUrl = Kept(draft.imageUrl, data.imageUrl)
                /\ draft'.price = IF data.price # NoPrice
                                  THEN NumberString(data.price[1]) ELSE draft.price
                /\ draft'.url = draft.url
                /\ draft'.priority = draft.priority
           /\ scrapeCall'.outcome # "ok" =>
                /\ draft' = draft
                /\ errorMsg' # Null ]_vars

\* a scrape that returned price 0 and no title finished: the form shows
\* "0" and still holds the title of an earlier scrape
C26_Witness ==
  /\ scrapeCall # <<>>
  /\ scrapeCall.pc = "idle"
  /\ scrapeCall.outcome = "ok"
  /\ scrapeCall.data.title = Null
  /\ scrapeCall.data.price = Num(0)
  /\ draft.price = <<"0">>
  /\ draft.title = <<"Widget">>
  /\ ~scraping

\* no request of the shop page is in flight
CartQuiet == ~checkingAuth /\ userId # Null /\ cartCalls = EmptyBag

\* C27: once every request in flight has completed, none having failed,
\* the rows the page shows are the rows stored for the user; the late answer
\* of an older refresh does not replace the result of a newer one.
C27_CartShowsStore ==
  (CartQuiet /\ ~failed) => cartRows = cart_items

\* one row per wishlist item in a set of cart rows
OneRowPerItem(rows) ==
  \A a \in rows, b \in rows : a.wishlist_item_id = b.wishlist_item_id => a = b

\* the step in which the table carries out the upsert of handleAddToCart
\* for item w
UpsertDone(w) ==
  \E c \in DOMAIN cartCalls :
    /\ c.op = "add" /\ c.target = w /\ c.pc = "sent"
    /\ cartCalls' = Replaced(c, [c EXCEPT !.pc = "selecting"])
    /\ cart_items' = Mutated(cart_items, c)

\* C28: the table and the page hold at most one cart row per wishlist
\* item of the user; the upsert of handleAddToCart leaves one row for its
\* item, with quantity 1 and purchased false; every row shown is in exactly
\* one of the lists behind the planned and the spent total, which together
\* add up every row once.
C28_OneRowPerItem ==
  /\ [](/\ OneRowPerItem(cart_items)
        /\ OneRowPerItem(cartRows)
        /\ \A c \in cartRows : (c \in inCart) # (c \in boughtItems)
        /\ totalCentsPlanned + totalCentsSpent = TotalCents(cartRows))
  /\ [][\A w \in Wishlist :
          UpsertDone(w) =>
            \E r \in cart_items' :
              /\ r.wishlist_item_id = w /\ r.quantity = 1 /\ ~r.purchased
              /\ \A o \in cart_items' : o.wishlist_item_id = w => o = r]_vars

\* an add served for an item that already had a row, marked bought in
\* between: the table holds the one row, back in the cart, while the page
\* still shows it as bought
C28_Witness ==
  /\ nextId = 2
  /\ cart_items = {CartRow(1, "w1", FALSE)}
  /\ cartRows = {CartRow(1, "w1", TRUE)}
  /\ \E c \in DOMAIN cartCalls : c.op = "add" /\ c.pc = "selecting"

====
